---------------------------- MODULE Spec2Model ----------------------------
(***************************************************************************)
(* A model of unicodelib.cpp: the Hangul algorithm, the normalization      *)
(* engine (decompose / canonical reordering / compose), the case engine    *)
(* and the property queries.  The library is a set of pure functions over  *)
(* read-only property tables; every function is an operator here, and a    *)
(* call of the public API is an action that records the call and what it   *)
(* returned.                                                               *)
(*                                                                         *)
(* Scalars are integers (code points, written in decimal).  Sequences are  *)
(* TLA+ sequences; At(s, k) reads the source's 0-based s[k].               *)
(***************************************************************************)
EXTENDS Integers, Sequences, FiniteSets, TLC

VARIABLES
  pc,     \* "idle": no call made yet; "returned": a call returned;
          \* "returned2": a second call on the first call's result returned
  call,   \* the call made: [op |-> name, ...arguments...]
  out     \* the value the (last) call returned

vars == <<pc, call, out>>

(***************************************************************************)
(* Bounds of the model.                                                    *)
(***************************************************************************)
MaxLen == 4

MaxCaseLen == 3

MaxSegLen == 4

MaxRunLen == 6

(***************************************************************************)
(* Helpers for the 0-based buffers of the source.                          *)
(***************************************************************************)
At(s, k) == s[k + 1]

Suffix(s, k) == SubSeq(s, k + 1, Len(s))

Swap(s, a, b) == [s EXCEPT ![a + 1] = s[b + 1], ![b + 1] = s[a + 1]]

Max(a, b) == IF a < b THEN b ELSE a

SeqsUpTo(S, n) == UNION {[1..k -> S] : k \in 0..n}

(***************************************************************************)
(* Hangul Algorithm (namespace hangul).                                    *)
(***************************************************************************)
SBase == 44032
LBase == 4352
VBase == 4449
TBase == 4519
LCount == 19
VCount == 21
TCount == 28
NCount == VCount * TCount
SCount == LCount * NCount

is_precomposed_syllable(cp) == SBase <= cp /\ cp < SBase + SCount

is_decomposed_syllable(source) ==
  IF Len(source) < 2 THEN FALSE
  ELSE LET first == At(source, 0)
           second == At(source, 1)
       IN  \/ /\ LBase <= first /\ first < LBase + LCount
              /\ VBase <= second /\ second < VBase + VCount
           \/ /\ SBase <= first /\ first < SBase + SCount
              /\ ((first - SBase) % TCount) = 0
              /\ TBase <= second /\ second < TBase + TCount

\* Mutant: the trailing consonant is emitted even when it is TBase.
decompose_hangul_always_T(cp) ==
  LET SIndex == cp - SBase
      L == LBase + (SIndex \div NCount)
      V == VBase + ((SIndex % NCount) \div TCount)
      T == TBase + (SIndex % TCount)
  IN  <<L, V, T>>

decompose_hangul(cp) ==
  LET SIndex == cp - SBase
      L == LBase + (SIndex \div NCount)
      V == VBase + ((SIndex % NCount) \div TCount)
      T == TBase + (SIndex % TCount)
  IN  IF T # TBase THEN <<L, V, T>> ELSE <<L, V>>

\* The for loop of compose_hangul from index i on, `last` being the syllable
\* built so far; returns the final `last` and the index the loop stopped at.
RECURSIVE compose_hangul_loop(_, _, _)
compose_hangul_loop(source, last, i) ==
  IF i < Len(source)
  THEN LET ch == At(source, i)
           LIndex == last - LBase
           VIndex == ch - VBase
           SIndex == last - SBase
           TIndex == ch - TBase
       IN  IF /\ 0 <= LIndex /\ LIndex < LCount
              /\ 0 <= VIndex /\ VIndex < VCount
           THEN compose_hangul_loop(
                  source, SBase + (LIndex * VCount + VIndex) * TCount, i + 1)
           ELSE IF /\ 0 <= SIndex /\ SIndex < SCount /\ (SIndex % TCount) = 0
                   /\ 0 <= TIndex /\ TIndex <= TCount
                THEN compose_hangul_loop(source, last + TIndex, i + 1)
                ELSE [last |-> last, i |-> i]
  ELSE [last |-> last, i |-> i]

\* compose_hangul(source, len, out): what it appends to out, and its return value.
compose_hangul(source) ==
  LET r == compose_hangul_loop(source, At(source, 0), 1)
  IN  [out |-> <<r.last>>, n |-> r.i]

(***************************************************************************)
(* The normalization record of a scalar: _normalization_properties[cp],    *)
(* {combining_class, compat_format, codes}.  The table is generated data;  *)
(* the rows below are those of the Unicode Character Database for the      *)
(* scalars the model draws its inputs from, every other scalar having      *)
(* class 0 and no decomposition.  codes = <<>> is the source's null.       *)
(***************************************************************************)
NormRec(ccc, compat, codes) ==
  [combining_class |-> ccc, compat_format |-> compat, codes |-> codes]

normalization_properties(cp) ==
  CASE cp = 769   -> NormRec(230, FALSE, <<>>)             \* U+0301 acute
    [] cp = 770   -> NormRec(230, FALSE, <<>>)             \* U+0302 circumflex
    [] cp = 775   -> NormRec(230, FALSE, <<>>)             \* U+0307 dot above
    [] cp = 776   -> NormRec(230, FALSE, <<>>)             \* U+0308 diaeresis
    [] cp = 803   -> NormRec(220, FALSE, <<>>)             \* U+0323 dot below
    [] cp = 807   -> NormRec(202, FALSE, <<>>)             \* U+0327 cedilla
    [] cp = 168   -> NormRec(0, TRUE, <<32, 776>>)         \* U+00A8 <compat>
    [] cp = 193   -> NormRec(0, FALSE, <<65, 769>>)        \* U+00C1
    [] cp = 194   -> NormRec(0, FALSE, <<65, 770>>)        \* U+00C2
    [] cp = 196   -> NormRec(0, FALSE, <<65, 776>>)        \* U+00C4
    [] cp = 836   -> NormRec(230, FALSE, <<776, 769>>)     \* U+0344
    [] cp = 901   -> NormRec(0, FALSE, <<168, 769>>)       \* U+0385
    [] cp = 7840  -> NormRec(0, FALSE, <<65, 803>>)        \* U+1EA0
    [] cp = 7844  -> NormRec(0, FALSE, <<194, 769>>)       \* U+1EA4
    [] cp = 7852  -> NormRec(0, FALSE, <<7840, 770>>)      \* U+1EAC
    [] cp = 64256 -> NormRec(0, TRUE, <<102, 102>>)        \* U+FB00 <compat>
    [] OTHER      -> NormRec(0, FALSE, <<>>)

\* _normalization_composition: the canonical pairs, composition exclusions
\* (here U+0344, a non-starter decomposition) and compatibility mappings left out.
normalization_composition ==
  { <<65, 769, 193>>, <<65, 770, 194>>, <<65, 776, 196>>, <<65, 803, 7840>>,
    <<194, 769, 7844>>, <<7840, 770, 7852>>, <<168, 769, 901>> }

combining_class(cp) == normalization_properties(cp).combining_class

(***************************************************************************)
(* Normalization.                                                          *)
(***************************************************************************)
IsCompatForm(norm) == norm = "NFKC" \/ norm = "NFKD"

\* Mutant: the mapping is emitted as it stands, not decomposed recursively.
decompose_code_one_level(cp, norm) ==
  IF is_precomposed_syllable(cp)
  THEN decompose_hangul(cp)
  ELSE LET prop == normalization_properties(cp)
       IN  IF prop.codes # <<>> /\ (~prop.compat_format \/ IsCompatForm(norm))
           THEN prop.codes
           ELSE <<cp>>

\* Mutant: a mapping is applied in every form, whatever its tag.
RECURSIVE decompose_code_any_tag(_, _)
decompose_code_any_tag(cp, norm) ==
  IF is_precomposed_syllable(cp)
  THEN decompose_hangul(cp)
  ELSE LET prop == normalization_properties(cp)
           D(k) == decompose_code_any_tag(prop.codes[k], norm)
       IN  IF prop.codes # <<>>
           THEN IF Len(prop.codes) = 1 THEN D(1) ELSE D(1) \o D(2)
           ELSE <<cp>>

RECURSIVE decompose_code(_, _)
RECURSIVE decompose_codes_of(_, _, _)
\* the while loop of decompose_code over prop.codes, from index i
decompose_codes_of(codes, i, norm) ==
  IF i < Len(codes)
  THEN decompose_code(At(codes, i), norm) \o decompose_codes_of(codes, i + 1, norm)
  ELSE <<>>

decompose_code(cp, norm) ==
  IF is_precomposed_syllable(cp)
  THEN decompose_hangul(cp)
  ELSE LET prop == normalization_properties(cp)
       IN  IF prop.codes # <<>> /\ (~prop.compat_format \/ IsCompatForm(norm))
           THEN decompose_codes_of(prop.codes, 0, norm)
           ELSE <<cp>>

\* the first loop of decompose: every scalar expanded, nothing reordered yet
RECURSIVE decompose_expand(_, _, _)
decompose_expand(s32, i, norm) ==
  IF i < Len(s32)
  THEN decompose_code(At(s32, i), norm) \o decompose_expand(s32, i + 1, norm)
  ELSE <<>>

\* Mutant: the inner loop swaps on >= instead of >, so equal classes trade places.
RECURSIVE canonical_ordering_inner_unstable(_, _)
canonical_ordering_inner_unstable(o, j) ==
  IF j > 0
  THEN IF combining_class(At(o, j - 1)) = 0
          \/ combining_class(At(o, j - 1)) < combining_class(At(o, j))
       THEN o
       ELSE canonical_ordering_inner_unstable(Swap(o, j - 1, j), j - 1)
  ELSE o

\* the inner loop of the Canonical Ordering Algorithm: for (j = i; j > 0; j--)
RECURSIVE canonical_ordering_inner(_, _)
canonical_ordering_inner(o, j) ==
  IF j > 0
  THEN IF combining_class(At(o, j - 1)) <= combining_class(At(o, j))
       THEN o
       ELSE canonical_ordering_inner(Swap(o, j - 1, j), j - 1)
  ELSE o

\* Mutant: the decomposed scalars are left in the order of the input.
canonical_ordering_skipped(o, i) == o

\* the outer loop: for (i = 0; i < out.length(); i++)
RECURSIVE canonical_ordering(_, _)
canonical_ordering(o, i) ==
  IF i < Len(o)
  THEN IF combining_class(At(o, i)) > 0
       THEN canonical_ordering(canonical_ordering_inner(o, i), i + 1)
       ELSE canonical_ordering(o, i + 1)
  ELSE o

decompose(s32, norm) == canonical_ordering(decompose_expand(s32, 0, norm), 0)

\* `table` is _normalization_composition, the generated map the code looks
\* the pair up in
compose_pair(table, cp0, cp1) ==
  IF \E t \in table : t[1] = cp0 /\ t[2] = cp1
  THEN [found |-> TRUE,
        cp |-> (CHOOSE t \in table : t[1] = cp0 /\ t[2] = cp1)[3]]
  ELSE [found |-> FALSE, cp |-> cp0]

\* One pass of the for loop inside `while (handled)`, from index i on.
\* cheched is the set of consumed indices.
RECURSIVE compose_codes_scan(_, _, _, _, _, _)
compose_codes_scan(table, s32, starter, cheched, i, max_class) ==
  IF i < Len(s32)
  THEN IF i \notin cheched
       THEN LET klass == combining_class(At(s32, i))
                p == compose_pair(table, starter, At(s32, i))
            IN  IF max_class < klass /\ p.found
                THEN [handled |-> TRUE, starter |-> p.cp,
                      cheched |-> cheched \cup {i}]
                ELSE IF klass = 0
                     THEN [handled |-> FALSE, starter |-> starter,
                           cheched |-> cheched]
                     ELSE compose_codes_scan(table, s32, starter, cheched, i + 1,
                                             Max(max_class, klass))
       ELSE compose_codes_scan(table, s32, starter, cheched, i + 1, max_class)
  ELSE [handled |-> FALSE, starter |-> starter, cheched |-> cheched]

\* while (handled) { ... }: every pass restarts at i = 1 with max_class = -1
RECURSIVE compose_codes_while(_, _, _, _)
compose_codes_while(table, s32, starter, cheched) ==
  LET r == compose_codes_scan(table, s32, starter, cheched, 1, 0 - 1)
  IN  IF r.handled
      THEN compose_codes_while(table, s32, r.starter, r.cheched)
      ELSE r

\* Mutant: the output loop does not skip the consumed scalars.
RECURSIVE compose_codes_output_all(_, _, _)
compose_codes_output_all(s32, cheched, i) ==
  IF i < Len(s32)
  THEN IF i \notin cheched /\ combining_class(At(s32, i)) = 0
       THEN [out |-> <<>>, n |-> i]
       ELSE LET r == compose_codes_output_all(s32, cheched, i + 1)
            IN  [out |-> <<At(s32, i)>> \o r.out, n |-> r.n]
  ELSE [out |-> <<>>, n |-> i]

\* the output loop: stops at the first non-consumed scalar of class 0
RECURSIVE compose_codes_output(_, _, _)
compose_codes_output(s32, cheched, i) ==
  IF i < Len(s32)
  THEN IF i \notin cheched
       THEN IF combining_class(At(s32, i)) = 0
            THEN [out |-> <<>>, n |-> i]
            ELSE LET r == compose_codes_output(s32, cheched, i + 1)
                 IN  [out |-> <<At(s32, i)>> \o r.out, n |-> r.n]
       ELSE compose_codes_output(s32, cheched, i + 1)
  ELSE [out |-> <<>>, n |-> i]

\* compose_codes(s32, l, out): what it appends to out, and its return value.
compose_codes(table, s32) ==
  LET w == compose_codes_while(table, s32, At(s32, 0), {})
      r == compose_codes_output(s32, w.cheched, 1)
  IN  [out |-> <<w.starter>> \o r.out, n |-> r.n]

RECURSIVE compose_from(_, _)
compose_from(s32, i) ==
  IF i < Len(s32)
  THEN LET r == IF is_decomposed_syllable(Suffix(s32, i))
                THEN compose_hangul(Suffix(s32, i))
                ELSE compose_codes(normalization_composition, Suffix(s32, i))
       IN  r.out \o compose_from(s32, i + r.n)
  ELSE <<>>

compose(s32) == compose_from(s32, 0)

to_nfc(s32) == compose(decompose(s32, "NFC"))

to_nfd(s32) == decompose(s32, "NFD")

to_nfkc(s32) == compose(decompose(s32, "NFKC"))

to_nfkd(s32) == decompose(s32, "NFKD")

Normalize(form, s32) ==
  CASE form = "to_nfc"  -> to_nfc(s32)
    [] form = "to_nfd"  -> to_nfd(s32)
    [] form = "to_nfkc" -> to_nfkc(s32)
    [] form = "to_nfkd" -> to_nfkd(s32)

(***************************************************************************)
(* Property tables of the case engine and of word segmentation.  Like the  *)
(* normalization records they are generated data; the rows are those of    *)
(* the Unicode Character Database for the scalars the model uses.          *)
(***************************************************************************)
\* _derived_core_properties[cp], as the set of the flags that are set
derived_core_properties(cp) ==
  CASE cp \in {65, 73, 83, 304, 931} ->
         {"Cased", "Uppercase", "Changes_When_Lowercased"}
    [] cp \in {97, 105, 115, 223, 305, 962, 963} ->
         {"Cased", "Lowercase", "Changes_When_Titlecased"}
    [] cp = 688           -> {"Cased", "Lowercase", "Case_Ignorable"}  \* U+02B0
    [] cp \in {39, 46, 775, 803}                 -> {"Case_Ignorable"}
    [] OTHER                                     -> {}

\* _properties[cp], as the set of the flags that are set
properties(cp) ==
  CASE cp = 105 -> {"Soft_Dotted"}
    [] cp = 32  -> {"White_Space"}
    [] OTHER    -> {}

is_cased(cp) == "Cased" \in derived_core_properties(cp)

is_case_ignorable(cp) == "Case_Ignorable" \in derived_core_properties(cp)

is_changes_when_lowercased(cp) ==
  "Changes_When_Lowercased" \in derived_core_properties(cp)

is_changes_when_titlecased(cp) ==
  "Changes_When_Titlecased" \in derived_core_properties(cp)

is_soft_dotted(cp) == "Soft_Dotted" \in properties(cp)

\* _simple_case_mappings: found, and the triple {upper, lower, title}
simple_case_mappings(cp) ==
  CASE cp = 65  -> [found |-> TRUE, Upper |-> 65, Lower |-> 97, Title |-> 65]
    [] cp = 97  -> [found |-> TRUE, Upper |-> 65, Lower |-> 97, Title |-> 65]
    [] cp = 73  -> [found |-> TRUE, Upper |-> 73, Lower |-> 105, Title |-> 73]
    [] cp = 105 -> [found |-> TRUE, Upper |-> 73, Lower |-> 105, Title |-> 73]
    [] cp = 83  -> [found |-> TRUE, Upper |-> 83, Lower |-> 115, Title |-> 83]
    [] cp = 115 -> [found |-> TRUE, Upper |-> 83, Lower |-> 115, Title |-> 83]
    [] cp = 304 -> [found |-> TRUE, Upper |-> 304, Lower |-> 105, Title |-> 304]
    [] cp = 305 -> [found |-> TRUE, Upper |-> 73, Lower |-> 305, Title |-> 73]
    [] cp = 931 -> [found |-> TRUE, Upper |-> 931, Lower |-> 963, Title |-> 931]
    [] cp = 962 -> [found |-> TRUE, Upper |-> 931, Lower |-> 962, Title |-> 931]
    [] cp = 963 -> [found |-> TRUE, Upper |-> 931, Lower |-> 963, Title |-> 931]
    [] OTHER    -> [found |-> FALSE, Upper |-> cp, Lower |-> cp, Title |-> cp]

NullLang == "(null)"

\* A SpecialCasing record; language NullLang is the null pointer, context
\* "Unassigned" a record of SpecialCasing.txt that names no context.
SpecialCasing(language, context, lower, title, upper) ==
  [language |-> language, context |-> context,
   Lower |-> lower, Title |-> title, Upper |-> upper]

\* _special_case_mappings.equal_range(cp): the conditional records of
\* SpecialCasing.txt for cp, in declaration order
special_case_mappings(cp) ==
  CASE cp = 931 ->
         << SpecialCasing(NullLang, "Final_Sigma", <<962>>, <<931>>, <<931>>) >>
    [] cp = 775 ->
         << SpecialCasing("lt", "After_Soft_Dotted", <<775>>, <<>>, <<>>),
            SpecialCasing("tr", "After_I", <<>>, <<775>>, <<775>>),
            SpecialCasing("az", "After_I", <<>>, <<775>>, <<775>>) >>
    [] cp = 73 ->
         << SpecialCasing("lt", "More_Above", <<105, 775>>, <<73>>, <<73>>),
            SpecialCasing("tr", "Not_Before_Dot", <<305>>, <<73>>, <<73>>),
            SpecialCasing("az", "Not_Before_Dot", <<305>>, <<73>>, <<73>>) >>
    [] cp = 304 ->
         << SpecialCasing("tr", "Unassigned", <<105>>, <<304>>, <<304>>),
            SpecialCasing("az", "Unassigned", <<105>>, <<304>>, <<304>>) >>
    [] cp = 105 ->
         << SpecialCasing("tr", "Unassigned", <<105>>, <<304>>, <<304>>),
            SpecialCasing("az", "Unassigned", <<105>>, <<304>>, <<304>>) >>
    [] OTHER -> <<>>

\* _special_case_mappings_default: the unconditional records
special_case_mappings_default(cp) ==
  CASE cp = 223 ->
         [found |-> TRUE,
          sc |-> SpecialCasing(NullLang, "Unassigned", <<223>>, <<83, 115>>, <<83, 83>>)]
    [] cp = 304 ->
         [found |-> TRUE,
          sc |-> SpecialCasing(NullLang, "Unassigned", <<105, 775>>, <<304>>, <<304>>)]
    [] OTHER -> [found |-> FALSE]

\* _case_foldings: found, and the record {C, F, S, T}; 0 and <<>> are "absent"
case_foldings(cp) ==
  CASE cp = 65    -> [found |-> TRUE, C |-> 97, F |-> <<>>, S |-> 0, T |-> 0]
    [] cp = 73    -> [found |-> TRUE, C |-> 105, F |-> <<>>, S |-> 0, T |-> 305]
    [] cp = 223   -> [found |-> TRUE, C |-> 0, F |-> <<115, 115>>, S |-> 0, T |-> 0]
    [] cp = 304   -> [found |-> TRUE, C |-> 0, F |-> <<105, 775>>, S |-> 0, T |-> 105]
    [] cp = 931   -> [found |-> TRUE, C |-> 963, F |-> <<>>, S |-> 0, T |-> 0]
    [] cp = 962   -> [found |-> TRUE, C |-> 963, F |-> <<>>, S |-> 0, T |-> 0]
    [] cp = 7838  -> [found |-> TRUE, C |-> 0, F |-> <<115, 115>>, S |-> 223, T |-> 0]
    [] cp = 64256 -> [found |-> TRUE, C |-> 0, F |-> <<102, 102>>, S |-> 0, T |-> 0]
    [] OTHER      -> [found |-> FALSE]

\* _script_properties[cp]
script_properties(cp) ==
  CASE cp = 65    -> "Latin"
    [] cp = 1576  -> "Arabic"
    [] cp = 1600  -> "Common"      \* U+0640 ARABIC TATWEEL
    [] cp = 1611  -> "Inherited"   \* U+064B ARABIC FATHATAN
    [] cp = 12289 -> "Common"      \* U+3001 IDEOGRAPHIC COMMA
    [] OTHER      -> "Unknown"

\* _script_extension_properties_for_id[_script_extension_ids[cp]]
script_extension_properties(cp) ==
  CASE cp = 1600  -> {"Adlam", "Arabic", "Mandaic", "Manichaean",
                      "Psalter_Pahlavi", "Hanifi_Rohingya", "Sogdian", "Syriac"}
    [] cp = 1611  -> {"Arabic", "Syriac"}
    [] cp = 12289 -> {"Bopomofo", "Hangul", "Han", "Hiragana", "Katakana", "Yi"}
    [] OTHER      -> {}

\* _word_break_properties[cp]
word_break_properties(cp) ==
  CASE cp \in {65, 73, 83, 97, 105, 115, 223, 304, 305, 688, 931, 962, 963}
                         -> "ALetter"
    [] cp = 10           -> "LF"
    [] cp = 13           -> "CR"
    [] cp = 32           -> "WSegSpace"
    [] cp = 39           -> "Single_Quote"
    [] cp = 46           -> "MidNumLet"
    [] cp = 49           -> "Numeric"
    [] cp = 133          -> "Newline"
    [] cp = 173          -> "Format"
    [] cp \in {775, 803} -> "Extend"
    [] cp = 8205         -> "ZWJ"
    [] cp = 127462       -> "Regional_Indicator"
    [] OTHER             -> "Other"

\* _emoji_properties[cp]
emoji_properties(cp) ==
  CASE cp \in {128105, 128187} -> "Extended_Pictographic"
    [] OTHER                   -> "Other"

(***************************************************************************)
(* Script.                                                                 *)
(***************************************************************************)
script(cp) == script_properties(cp)

is_script(sc, cp) ==
  LET val == script(cp)
  IN  IF val = "Common" \/ val = "Inherited"
      THEN sc \in script_extension_properties(cp)
      ELSE sc = val

(***************************************************************************)
(* Word Segmentation.                                                      *)
(***************************************************************************)
AHLetter(p) == p = "ALetter" \/ p = "Hebrew_Letter"

MidNumLetQ(p) == p = "MidNumLet" \/ p = "Single_Quote"

IsWBIgnored(p) == p = "Extend" \/ p = "Format" \/ p = "ZWJ"

\* Mutant: the scan to the left stops on the first scalar, ignored or not.
previous_word_break_scan_no_skip(s32, pos) == pos

RECURSIVE previous_word_break_scan(_, _)
previous_word_break_scan(s32, pos) ==
  IF pos >= 0 /\ IsWBIgnored(word_break_properties(At(s32, pos)))
  THEN previous_word_break_scan(s32, pos - 1)
  ELSE pos

\* i may be a negative position handed back in; the result is then below it
previous_word_break_property_position(s32, i) ==
  previous_word_break_scan(s32, i - 1)

RECURSIVE next_word_break_scan(_, _)
next_word_break_scan(s32, pos) ==
  IF pos < Len(s32) /\ IsWBIgnored(word_break_properties(At(s32, pos)))
  THEN next_word_break_scan(s32, pos + 1)
  ELSE pos

next_word_break_property_position(s32, i) == next_word_break_scan(s32, i + 1)

\* word break property at a position a scan returned; "Unassigned" off the text
WBAt(s32, pos) ==
  IF pos >= 0 /\ pos < Len(s32)
  THEN word_break_properties(At(s32, pos))
  ELSE "Unassigned"

\* Mutant: the loop looks at one pair and never goes round again.
word_boundary_ri_loop_once(s32, lpos) ==
  LET p1 == previous_word_break_property_position(s32, lpos)
  IN  p1 < 0 \/ WBAt(s32, p1) # "Regional_Indicator"

\* the while (true) loop of WB15/WB16: TRUE when it leaves by `return false`
RECURSIVE word_boundary_ri_loop(_, _)
word_boundary_ri_loop(s32, lpos) ==
  LET p1 == previous_word_break_property_position(s32, lpos)
  IN  IF p1 < 0 \/ WBAt(s32, p1) # "Regional_Indicator"
      THEN TRUE
      ELSE LET p2 == previous_word_break_property_position(s32, p1)
           IN  IF p2 < 0 \/ WBAt(s32, p2) # "Regional_Indicator"
               THEN FALSE
               ELSE word_boundary_ri_loop(s32, p2)

is_word_boundary(s32, i) ==
  LET l == Len(s32) IN
  IF i = 0 THEN TRUE                                               \* WB1
  ELSE IF i = l THEN TRUE                                          \* WB2
  ELSE
  LET lp0 == word_break_properties(At(s32, i - 1))
      rp == word_break_properties(At(s32, i))
      lpos == previous_word_break_property_position(s32, i)
      lp == WBAt(s32, lpos)
      rpos == next_word_break_property_position(s32, i)
      rp1 == WBAt(s32, rpos)
      lpos1 == previous_word_break_property_position(s32, lpos)
      lp1 == WBAt(s32, lpos1)
  IN
  IF lp0 = "CR" /\ rp = "LF" THEN FALSE                            \* WB3
  ELSE IF lp0 \in {"Newline", "CR", "LF"} THEN TRUE                \* WB3a
  ELSE IF rp \in {"Newline", "CR", "LF"} THEN TRUE                 \* WB3b
  ELSE IF lp0 = "ZWJ" /\ emoji_properties(At(s32, i)) = "Extended_Pictographic"
       THEN FALSE                                                  \* WB3c
  ELSE IF lp0 = "WSegSpace" /\ rp = "WSegSpace" THEN FALSE         \* WB3d
  ELSE IF IsWBIgnored(rp) THEN FALSE                               \* WB4
  ELSE IF AHLetter(lp) /\ AHLetter(rp) THEN FALSE                  \* WB5
  ELSE IF AHLetter(lp) /\ (rp = "MidLetter" \/ MidNumLetQ(rp)) /\ AHLetter(rp1)
       THEN FALSE                                                  \* WB6
  ELSE IF AHLetter(lp1) /\ (lp = "MidLetter" \/ MidNumLetQ(lp)) /\ AHLetter(rp)
       THEN FALSE                                                  \* WB7
  ELSE IF lp = "Hebrew_Letter" /\ rp = "Single_Quote" THEN FALSE   \* WB7a
  ELSE IF lp = "Hebrew_Letter" /\ rp = "Double_Quote" /\ rp1 = "Hebrew_Letter"
       THEN FALSE                                                  \* WB7b
  ELSE IF lp1 = "Hebrew_Letter" /\ lp = "Double_Quote" /\ rp = "Hebrew_Letter"
       THEN FALSE                                                  \* WB7c
  ELSE IF lp = "Numeric" /\ rp = "Numeric" THEN FALSE              \* WB8
  ELSE IF AHLetter(lp) /\ rp = "Numeric" THEN FALSE                \* WB9
  ELSE IF lp = "Numeric" /\ AHLetter(rp) THEN FALSE                \* WB10
  ELSE IF lp1 = "Numeric" /\ (lp = "MidNum" \/ MidNumLetQ(lp)) /\ rp = "Numeric"
       THEN FALSE                                                  \* WB11
  ELSE IF lp = "Numeric" /\ (rp = "MidNum" \/ MidNumLetQ(rp)) /\ rp1 = "Numeric"
       THEN FALSE                                                  \* WB12
  ELSE IF lp = "Katakana" /\ rp = "Katakana" THEN FALSE            \* WB13
  ELSE IF /\ (AHLetter(lp) \/ lp = "Katakana" \/ lp = "Numeric"
                \/ lp = "ExtendNumLet")
          /\ rp = "ExtendNumLet"
       THEN FALSE                                                  \* WB13a
  ELSE IF /\ lp = "ExtendNumLet"
          /\ (AHLetter(rp) \/ rp = "Numeric" \/ rp = "Katakana")
       THEN FALSE                                                  \* WB13b
  ELSE IF /\ lp = "Regional_Indicator" /\ rp = "Regional_Indicator"
          /\ word_boundary_ri_loop(s32, lpos)
       THEN FALSE                                                  \* WB15, WB16
  ELSE TRUE                                                        \* WB999

(***************************************************************************)
(* Case.                                                                   *)
(***************************************************************************)
simple_case_mapping(cp, type) ==
  LET it == simple_case_mappings(cp)
  IN  IF it.found THEN it[type] ELSE cp

simple_case_folding(cp) ==
  LET it == case_foldings(cp)
  IN  IF it.found
      THEN IF it.S # 0 THEN it.S ELSE it.C
      ELSE cp

is_language_qualified(user_lang, spec_lang) ==
  spec_lang = NullLang \/ (user_lang # NullLang /\ user_lang = spec_lang)

RECURSIVE skip_case_ignorable_left(_, _)
skip_case_ignorable_left(s32, pos) ==
  IF pos >= 0 /\ is_case_ignorable(At(s32, pos))
  THEN skip_case_ignorable_left(s32, pos - 1)
  ELSE pos

RECURSIVE skip_case_ignorable_right(_, _)
skip_case_ignorable_right(s32, pos) ==
  IF pos < Len(s32) /\ is_case_ignorable(At(s32, pos))
  THEN skip_case_ignorable_right(s32, pos + 1)
  ELSE pos

is_final_sigma(s32, i) ==
  LET before == skip_case_ignorable_left(s32, i - 1)
      after == skip_case_ignorable_right(s32, i + 1)
  IN  IF before < 0 \/ ~is_cased(At(s32, before))
      THEN FALSE
      ELSE IF after < Len(s32) /\ is_cased(At(s32, after))
           THEN FALSE
           ELSE TRUE

has_class_230_or_0(cp) ==
  LET cls == combining_class(cp) IN cls = 230 \/ cls = 0

RECURSIVE skip_not_230_or_0_left(_, _)
skip_not_230_or_0_left(s32, pos) ==
  IF pos >= 0 /\ ~has_class_230_or_0(At(s32, pos))
  THEN skip_not_230_or_0_left(s32, pos - 1)
  ELSE pos

is_after_soft_dotted(s32, i) ==
  LET pos == skip_not_230_or_0_left(s32, i - 1)
  IN  ~(pos < 0 \/ ~is_soft_dotted(At(s32, pos)))

\* s32[pos] as is_more_above reads it: its scan starts at i - 1, which for
\* i = 0 is the memory before the buffer; `mem` is the scalar found there.
ReadFrom(s32, mem, pos) == IF pos < 0 THEN mem ELSE At(s32, pos)

RECURSIVE more_above_scan(_, _, _)
more_above_scan(s32, mem, pos) ==
  IF pos < Len(s32) /\ ~has_class_230_or_0(ReadFrom(s32, mem, pos))
  THEN more_above_scan(s32, mem, pos + 1)
  ELSE pos

is_more_above(s32, i, mem) ==
  LET pos == more_above_scan(s32, mem, i - 1)
  IN  ~(pos < Len(s32) /\ combining_class(ReadFrom(s32, mem, pos)) # 230)

\* the positions at which is_more_above reads s32: every pos the loop tests
\* and the one of the final test, each read guarded by pos < l only
is_more_above_reads(s32, i, mem) ==
  {pos \in (i - 1)..more_above_scan(s32, mem, i - 1) : pos < Len(s32)}

RECURSIVE skip_not_230_or_0_right(_, _)
skip_not_230_or_0_right(s32, pos) ==
  IF pos < Len(s32) /\ ~has_class_230_or_0(At(s32, pos))
  THEN skip_not_230_or_0_right(s32, pos + 1)
  ELSE pos

is_before_dot(s32, i) ==
  LET pos == skip_not_230_or_0_right(s32, i + 1)
  IN  ~(pos < Len(s32) /\ At(s32, pos) # 775)

\* the positions at which is_before_dot reads s32
is_before_dot_reads(s32, i) ==
  {pos \in (i + 1)..skip_not_230_or_0_right(s32, i + 1) : pos < Len(s32)}

is_after_i(s32, i) ==
  LET pos == skip_not_230_or_0_left(s32, i - 1)
  IN  ~(pos < 0 \/ At(s32, pos) # 73)

\* the switch (sc.context) of full_case_mapping: the value of `handle`
context_handle(context, s32, i, mem) ==
  CASE context = "Final_Sigma"       -> is_final_sigma(s32, i)
    [] context = "Not_Final_Sigma"   -> ~is_final_sigma(s32, i)
    [] context = "After_Soft_Dotted" -> is_after_soft_dotted(s32, i)
    [] context = "More_Above"        -> is_more_above(s32, i, mem)
    [] context = "Before_Dot"        -> is_before_dot(s32, i)
    [] context = "Not_Before_Dot"    -> ~is_before_dot(s32, i)
    [] context = "After_I"           -> is_after_i(s32, i)
    [] OTHER                         -> FALSE

\* the loop of full_case_mapping over the records of cp, from record k on:
\* the mapping of the first record that is handled, or "none"
RECURSIVE special_case_search(_, _, _, _, _, _, _)
special_case_search(r, k, s32, i, lang, type, mem) ==
  IF k <= Len(r)
  THEN IF /\ is_language_qualified(lang, r[k].language)
          /\ context_handle(r[k].context, s32, i, mem)
       THEN [handled |-> TRUE, codes |-> r[k][type]]
       ELSE special_case_search(r, k + 1, s32, i, lang, type, mem)
  ELSE [handled |-> FALSE]

full_case_mapping(s32, i, lang, type, mem) ==
  LET cp == At(s32, i)
      h == special_case_search(special_case_mappings(cp), 1, s32, i, lang, type, mem)
      it == special_case_mappings_default(cp)
  IN  IF h.handled THEN h.codes
      ELSE IF it.found THEN it.sc[type]
      ELSE <<simple_case_mapping(cp, type)>>

uppercase_mapping(s32, i, lang, mem) == full_case_mapping(s32, i, lang, "Upper", mem)

lowercase_mapping(s32, i, lang, mem) == full_case_mapping(s32, i, lang, "Lower", mem)

titlecase_mapping(s32, i, lang, mem) == full_case_mapping(s32, i, lang, "Title", mem)

RECURSIVE to_uppercase_from(_, _, _, _)
to_uppercase_from(s32, i, lang, mem) ==
  IF i < Len(s32)
  THEN uppercase_mapping(s32, i, lang, mem) \o to_uppercase_from(s32, i + 1, lang, mem)
  ELSE <<>>

to_uppercase(s32, lang, mem) == to_uppercase_from(s32, 0, lang, mem)

RECURSIVE to_lowercase_from(_, _, _, _)
to_lowercase_from(s32, i, lang, mem) ==
  IF i < Len(s32)
  THEN lowercase_mapping(s32, i, lang, mem) \o to_lowercase_from(s32, i + 1, lang, mem)
  ELSE <<>>

to_lowercase(s32, lang, mem) == to_lowercase_from(s32, 0, lang, mem)

\* to_titlecase: the outer while loop at position i
RECURSIVE to_titlecase_from(_, _, _, _)
\* the first inner loop: non-cased scalars are copied, then the title mapping
RECURSIVE to_titlecase_copy(_, _, _, _)
\* the second inner loop: lower mappings up to the next word boundary
RECURSIVE to_titlecase_lower(_, _, _, _)
\* Mutant: the second inner loop does not stop at a word boundary.
RECURSIVE to_titlecase_lower_to_end(_, _, _, _)
to_titlecase_lower_to_end(s32, i, lang, mem) ==
  IF i < Len(s32)
  THEN lowercase_mapping(s32, i, lang, mem)
         \o to_titlecase_lower_to_end(s32, i + 1, lang, mem)
  ELSE <<>>

to_titlecase_from(s32, i, lang, mem) ==
  IF i < Len(s32) THEN to_titlecase_copy(s32, i, lang, mem) ELSE <<>>

to_titlecase_copy(s32, i, lang, mem) ==
  IF i < Len(s32) /\ ~is_cased(At(s32, i))
  THEN <<At(s32, i)>> \o to_titlecase_copy(s32, i + 1, lang, mem)
  ELSE IF i = Len(s32)
       THEN <<>>
       ELSE titlecase_mapping(s32, i, lang, mem)
              \o (IF i + 1 = Len(s32)
                  THEN <<>>
                  ELSE to_titlecase_lower(s32, i + 1, lang, mem))

to_titlecase_lower(s32, i, lang, mem) ==
  IF i < Len(s32) /\ ~is_word_boundary(s32, i)
  THEN lowercase_mapping(s32, i, lang, mem)
         \o to_titlecase_lower(s32, i + 1, lang, mem)
  ELSE to_titlecase_from(s32, i, lang, mem)

to_titlecase(s32, lang, mem) == to_titlecase_from(s32, 0, lang, mem)

\* is_titlecase: the outer while loop at position i
RECURSIVE is_titlecase_from(_, _)
\* the first inner loop over the non-cased scalars, then the test of the
\* first cased scalar
RECURSIVE is_titlecase_copy(_, _)
\* the second inner loop, up to the next word boundary
RECURSIVE is_titlecase_lower(_, _)
\* Mutant: the second inner loop does not stop at a word boundary.
RECURSIVE is_titlecase_lower_to_end(_, _)
is_titlecase_lower_to_end(s32, i) ==
  IF i < Len(s32)
  THEN IF is_changes_when_lowercased(At(s32, i))
       THEN FALSE
       ELSE is_titlecase_lower_to_end(s32, i + 1)
  ELSE TRUE

is_titlecase_from(s32, i) ==
  IF i < Len(s32) THEN is_titlecase_copy(s32, i) ELSE TRUE

is_titlecase_copy(s32, i) ==
  IF i < Len(s32) /\ ~is_cased(At(s32, i))
  THEN IF is_changes_when_lowercased(At(s32, i))
       THEN FALSE
       ELSE is_titlecase_copy(s32, i + 1)
  ELSE IF i = Len(s32)
       THEN TRUE
       ELSE IF is_changes_when_titlecased(At(s32, i))
            THEN FALSE
            ELSE IF i + 1 = Len(s32)
                 THEN TRUE
                 ELSE is_titlecase_lower(s32, i + 1)

is_titlecase_lower(s32, i) ==
  IF i < Len(s32) /\ ~is_word_boundary(s32, i)
  THEN IF is_changes_when_lowercased(At(s32, i))
       THEN FALSE
       ELSE is_titlecase_lower(s32, i + 1)
  ELSE is_titlecase_from(s32, i)

is_titlecase(s32) == is_titlecase_from(s32, 0)

(***************************************************************************)
(* Property tables of the segmentation engines and of the combining        *)
(* character sequences (generated data, rows of the Unicode Character      *)
(* Database for the scalars the model uses).                               *)
(***************************************************************************)
\* _general_category_properties[cp]
general_category(cp) ==
  CASE cp \in {0, 10, 13}            -> "Cc"
    [] cp = 32                       -> "Zs"
    [] cp \in {33, 44, 46}           -> "Po"
    [] cp = 41                       -> "Pe"
    [] cp = 49                       -> "Nd"
    [] cp = 65                       -> "Lu"
    [] cp \in {97, 101}              -> "Ll"
    [] cp \in {769, 775, 803}        -> "Mn"
    [] cp = 2307                     -> "Mc"
    [] cp \in {173, 1536, 8204, 8205} -> "Cf"
    [] cp \in {4352, 4449, 4520, 44032, 44033} -> "Lo"
    [] cp \in {127462, 128105, 128187} -> "So"
    [] OTHER                         -> "Cn"

\* _grapheme_break_properties[cp]
grapheme_break_properties(cp) ==
  CASE cp = 13                       -> "CR"
    [] cp = 10                       -> "LF"
    [] cp \in {0, 173}               -> "Control"
    [] cp \in {769, 775, 803, 8204}  -> "Extend"
    [] cp = 8205                     -> "ZWJ"
    [] cp = 2307                     -> "SpacingMark"
    [] cp = 1536                     -> "Prepend"
    [] cp = 127462                   -> "Regional_Indicator"
    [] cp = 4352                     -> "L"
    [] cp = 4449                     -> "V"
    [] cp = 4520                     -> "T"
    [] cp = 44032                    -> "LV"
    [] cp = 44033                    -> "LVT"
    [] OTHER                         -> "Other"

\* _sentence_break_properties[cp]
sentence_break_properties(cp) ==
  CASE cp = 13                       -> "CR"
    [] cp = 10                       -> "LF"
    [] cp = 133                      -> "Sep"
    [] cp = 32                       -> "Sp"
    [] cp = 33                       -> "STerm"
    [] cp = 46                       -> "ATerm"
    [] cp = 41                       -> "Close"
    [] cp = 44                       -> "SContinue"
    [] cp = 49                       -> "Numeric"
    [] cp = 65                       -> "Upper"
    [] cp \in {97, 101}              -> "Lower"
    [] cp \in {769, 775, 803, 8204, 8205} -> "Extend"
    [] cp \in {173, 1536}            -> "Format"
    [] OTHER                         -> "Other"

(***************************************************************************)
(* Combining Character Sequence.                                           *)
(***************************************************************************)
ZERO_WIDTH_JOINER == 8205

ZERO_WIDTH_NON_JOINER == 8204

is_mark(cp) == general_category(cp) \in {"Mn", "Mc", "Me"}

is_base_character(cp) ==
  LET gc == general_category(cp)
  IN  \/ gc = "Zs"
      \/ gc \in {"Lu", "Ll", "Lt", "Lm", "Lo"}
      \/ gc \in {"Nd", "Nl", "No"}
      \/ gc \in {"Pc", "Pd", "Ps", "Pe", "Pi", "Pf", "Po"}
      \/ gc \in {"Sm", "Sc", "Sk", "So"}

is_combining_character(cp) == is_mark(cp)

\* while (i < l && _grapheme_break_properties[s32[i]] == p) i++
RECURSIVE korean_run(_, _, _)
korean_run(s32, i, p) ==
  IF i < Len(s32) /\ grapheme_break_properties(At(s32, i)) = p
  THEN korean_run(s32, i + 1, p)
  ELSE i

\* while (i < l || _grapheme_break_properties[s32[i]] == T) i++ : once i has
\* reached l the loop reads behind the buffer; `after` is what the memory
\* holds there (it ends with a scalar that is not T)
RECURSIVE korean_T_run(_, _, _)
korean_T_run(s32, after, i) ==
  IF i < Len(s32) \/ grapheme_break_properties(At(s32 \o after, i)) = "T"
  THEN korean_T_run(s32, after, i + 1)
  ELSE i

\* returns: whether s32 starts with a syllable block, and `length`
is_standard_korean_syllable_block(s32, after) ==
  LET l == Len(s32) IN
  IF 0 = l \/ grapheme_break_properties(At(s32, 0)) # "L"
  THEN [ok |-> FALSE, length |-> 0]
  ELSE LET i1 == korean_run(s32, 1, "L") IN
       IF i1 = l \/ grapheme_break_properties(At(s32, i1)) # "V"
       THEN [ok |-> FALSE, length |-> 0]
       ELSE LET i2 == korean_run(s32, i1 + 1, "V")
            IN  [ok |-> TRUE, length |-> korean_T_run(s32, after, i2)]

is_extended_base(s32, after) ==
  IF Len(s32) > 0
  THEN LET k == is_standard_korean_syllable_block(s32, after)
       IN  IF k.ok THEN k
           ELSE IF is_base_character(At(s32, 0))
                THEN [ok |-> TRUE, length |-> 1]
                ELSE [ok |-> FALSE, length |-> 0]
  ELSE [ok |-> FALSE, length |-> 0]

\* while (i < l): combining characters, ZWJ and ZWNJ are taken, else break
RECURSIVE combining_run(_, _)
combining_run(s32, i) ==
  IF i < Len(s32)
  THEN LET cp == At(s32, i)
       IN  IF is_combining_character(cp) \/ cp = ZERO_WIDTH_JOINER
              \/ cp = ZERO_WIDTH_NON_JOINER
           THEN combining_run(s32, i + 1)
           ELSE i
  ELSE i

extended_combining_character_sequence_length(s32, after) ==
  IF Len(s32) # 0
  THEN LET b == is_extended_base(s32, after)
       IN  combining_run(s32, IF b.ok THEN b.length ELSE 0)
  ELSE 0

combining_character_sequence_length(s32) ==
  IF Len(s32) # 0
  THEN combining_run(s32, IF is_base_character(At(s32, 0)) THEN 1 ELSE 0)
  ELSE 0

\* while (i < l) { count++; i += combining_character_sequence_length(...); }
\* When the length is 0 the next round starts from the same i, and so does
\* every round after it: the loop does not end and the call does not return.
RECURSIVE combining_character_sequence_count_loop(_, _, _)
combining_character_sequence_count_loop(s32, i, count) ==
  IF i < Len(s32)
  THEN LET n == combining_character_sequence_length(Suffix(s32, i))
       IN  IF n = 0
           THEN [returns |-> FALSE, count |-> count + 1]
           ELSE combining_character_sequence_count_loop(s32, i + n, count + 1)
  ELSE [returns |-> TRUE, count |-> count]

combining_character_sequence_count(s32) ==
  combining_character_sequence_count_loop(s32, 0, 0)

RECURSIVE extended_combining_character_sequence_count_loop(_, _, _, _)
extended_combining_character_sequence_count_loop(s32, after, i, count) ==
  IF i < Len(s32)
  THEN LET n == extended_combining_character_sequence_length(
                  Suffix(s32, i), after)
       IN  IF n = 0
           THEN [returns |-> FALSE, count |-> count + 1]
           ELSE extended_combining_character_sequence_count_loop(
                  s32, after, i + n, count + 1)
  ELSE [returns |-> TRUE, count |-> count]

extended_combining_character_sequence_count(s32, after) ==
  extended_combining_character_sequence_count_loop(s32, after, 0, 0)

(***************************************************************************)
(* Grapheme Cluster Segmentation.                                          *)
(***************************************************************************)
\* Mutant: the scan of GB11 does not skip the Extend scalars.
grapheme_extend_scan_no_skip(s32, pos) == pos

\* Mutant: the scan of GB12/GB13 goes back one Regional_Indicator at a time.
RECURSIVE grapheme_ri_scan_by_one(_, _)
grapheme_ri_scan_by_one(s32, pos) ==
  IF /\ pos >= 1
     /\ grapheme_break_properties(At(s32, pos)) = "Regional_Indicator"
     /\ grapheme_break_properties(At(s32, pos - 1)) = "Regional_Indicator"
  THEN grapheme_ri_scan_by_one(s32, pos - 1)
  ELSE pos

\* GB11: while (pos >= 0 && property of s32[pos] == Extend) pos--
RECURSIVE grapheme_extend_scan(_, _)
grapheme_extend_scan(s32, pos) ==
  IF pos >= 0 /\ grapheme_break_properties(At(s32, pos)) = "Extend"
  THEN grapheme_extend_scan(s32, pos - 1)
  ELSE pos

\* GB12/GB13: while (pos >= 1 && s32[pos] is RI && s32[pos - 1] is RI) pos -= 2
RECURSIVE grapheme_ri_scan(_, _)
grapheme_ri_scan(s32, pos) ==
  IF /\ pos >= 1
     /\ grapheme_break_properties(At(s32, pos)) = "Regional_Indicator"
     /\ grapheme_break_properties(At(s32, pos - 1)) = "Regional_Indicator"
  THEN grapheme_ri_scan(s32, pos - 2)
  ELSE pos

\* Mutant: GB9, GB9a and GB9b are tested before GB4 and GB5.
is_grapheme_boundary_gb9_first(s32, i) ==
  IF i = 0 \/ i = Len(s32) THEN TRUE
  ELSE LET lp == grapheme_break_properties(At(s32, i - 1))
           rp == grapheme_break_properties(At(s32, i))
       IN IF lp = "CR" /\ rp = "LF" THEN FALSE
          ELSE IF rp \in {"Extend", "ZWJ", "SpacingMark"} THEN FALSE
          ELSE IF lp = "Prepend" THEN FALSE
          ELSE TRUE

\* Mutant: GB2 is left out and the end of the text is not a boundary.
is_grapheme_boundary_no_eot(s32, i) ==
  IF i = 0 THEN TRUE
  ELSE IF i = Len(s32) THEN FALSE
  ELSE TRUE

is_grapheme_boundary(s32, i) ==
  LET l == Len(s32) IN
  IF i = 0 THEN TRUE                                               \* GB1
  ELSE IF i = l THEN TRUE                                          \* GB2
  ELSE
  LET lp == grapheme_break_properties(At(s32, i - 1))
      rp == grapheme_break_properties(At(s32, i))
      rpEmoji == emoji_properties(At(s32, i))
      epos == grapheme_extend_scan(s32, i - 2)
      rpos == grapheme_ri_scan(s32, i - 2)
  IN
  IF lp = "CR" /\ rp = "LF" THEN FALSE                             \* GB3
  ELSE IF lp \in {"Control", "CR", "LF"} THEN TRUE                 \* GB4
  ELSE IF rp \in {"Control", "CR", "LF"} THEN TRUE                 \* GB5
  ELSE IF lp = "L" /\ rp \in {"L", "V", "LV", "LVT"} THEN FALSE    \* GB6
  ELSE IF lp \in {"LV", "V"} /\ rp \in {"V", "T"} THEN FALSE       \* GB7
  ELSE IF lp \in {"LVT", "T"} /\ rp = "T" THEN FALSE               \* GB8
  ELSE IF rp = "Extend" \/ rp = "ZWJ" THEN FALSE                   \* GB9
  ELSE IF rp = "SpacingMark" THEN FALSE                            \* GB9a
  ELSE IF lp = "Prepend" THEN FALSE                                \* GB9b
  ELSE IF /\ lp = "ZWJ" /\ rpEmoji = "Extended_Pictographic"
          /\ epos >= 0
          /\ emoji_properties(At(s32, epos)) = "Extended_Pictographic"
       THEN FALSE                                                  \* GB11
  ELSE IF /\ lp = "Regional_Indicator" /\ rp = "Regional_Indicator"
          /\ \/ rpos < 0
             \/ grapheme_break_properties(At(s32, rpos)) # "Regional_Indicator"
       THEN FALSE                                                  \* GB12, GB13
  ELSE TRUE                                                        \* GB999

\* for (; i < l; i++) if (is_grapheme_boundary(s32, l, i)) return i; return i
RECURSIVE grapheme_length_from(_, _)
grapheme_length_from(s32, i) ==
  IF i < Len(s32)
  THEN IF is_grapheme_boundary(s32, i) THEN i ELSE grapheme_length_from(s32, i + 1)
  ELSE i

\* Mutant: the whole text is taken as one cluster.
grapheme_length_to_end(s32) == Max(Len(s32), 1)

grapheme_length(s32) == grapheme_length_from(s32, 1)

\* Mutant: every scalar is counted as a cluster of its own.
RECURSIVE grapheme_count_from_by_one(_, _, _)
grapheme_count_from_by_one(s32, i, count) ==
  IF i < Len(s32)
  THEN grapheme_count_from_by_one(s32, i + 1, count + 1)
  ELSE count

\* while (i < l) { count++; i += grapheme_length(s32 + i, l - i); }
RECURSIVE grapheme_count_from(_, _, _)
grapheme_count_from(s32, i, count) ==
  IF i < Len(s32)
  THEN grapheme_count_from(s32, i + grapheme_length(Suffix(s32, i)), count + 1)
  ELSE count

grapheme_count(s32) == grapheme_count_from(s32, 0, 0)

(***************************************************************************)
(* Sentence Segmentation.                                                  *)
(***************************************************************************)
ParaSep(p) == p = "Sep" \/ p = "CR" \/ p = "LF"

SATerm(p) == p = "STerm" \/ p = "ATerm"

IsSBIgnored(p) == p = "Extend" \/ p = "Format"

RECURSIVE previous_sentence_break_scan(_, _)
previous_sentence_break_scan(s32, pos) ==
  IF pos >= 0 /\ IsSBIgnored(sentence_break_properties(At(s32, pos)))
  THEN previous_sentence_break_scan(s32, pos - 1)
  ELSE pos

previous_sentence_break_property_position(s32, i) ==
  previous_sentence_break_scan(s32, i - 1)

RECURSIVE next_sentence_break_scan(_, _)
next_sentence_break_scan(s32, pos) ==
  IF pos < Len(s32) /\ IsSBIgnored(sentence_break_properties(At(s32, pos)))
  THEN next_sentence_break_scan(s32, pos + 1)
  ELSE pos

next_sentence_break_property_position(s32, i) ==
  next_sentence_break_scan(s32, i + 1)

\* Mutant: the loop steps over Sp and Close alike, whichever it was asked for.
RECURSIVE sentence_skip_left_either(_, _, _, _)
sentence_skip_left_either(s32, pos, last, skip) ==
  IF pos >= 0
  THEN LET lp == sentence_break_properties(At(s32, pos))
       IN  IF lp # "Sp" /\ lp # "Close"
           THEN [pos |-> pos, lp |-> lp]
           ELSE sentence_skip_left_either(
                  s32, previous_sentence_break_property_position(s32, pos), lp, skip)
  ELSE [pos |-> pos, lp |-> last]

\* while (pos >= 0) { lp = property of s32[pos]; if (lp != skip) break;
\*                    pos = previous_sentence_break_property_position(s32, pos); }
\* `last` is the value lp has when the loop is entered
RECURSIVE sentence_skip_left(_, _, _, _)
sentence_skip_left(s32, pos, last, skip) ==
  IF pos >= 0
  THEN LET lp == sentence_break_properties(At(s32, pos))
       IN  IF lp # skip
           THEN [pos |-> pos, lp |-> lp]
           ELSE sentence_skip_left(
                  s32, previous_sentence_break_property_position(s32, pos), lp, skip)
  ELSE [pos |-> pos, lp |-> last]

\* the loop that computes rp2, from position pos, rp2 being `last` on entry
RECURSIVE sentence_scan_right(_, _, _)
sentence_scan_right(s32, pos, last) ==
  IF pos < Len(s32)
  THEN LET rp2 == sentence_break_properties(At(s32, pos))
       IN  IF ParaSep(rp2) \/ SATerm(rp2) \/ rp2 \in {"OLetter", "Upper", "Lower"}
           THEN rp2
           ELSE sentence_scan_right(
                  s32, next_sentence_break_property_position(s32, pos), rp2)
  ELSE last

is_sentence_boundary(s32, i) ==
  LET l == Len(s32) IN
  IF i = 0 THEN TRUE                                               \* SB1
  ELSE IF i = l THEN TRUE                                          \* SB2
  ELSE
  LET lp0 == sentence_break_properties(At(s32, i - 1))
      rp == sentence_break_properties(At(s32, i))
      lpos == previous_sentence_break_property_position(s32, i)
      lp == IF lpos >= 0 THEN sentence_break_properties(At(s32, lpos))
            ELSE "Unassigned"
      lpos1 == IF lpos > 0
               THEN previous_sentence_break_property_position(s32, lpos)
               ELSE 0 - 1
      lp1 == IF lpos1 >= 0 THEN sentence_break_properties(At(s32, lpos1))
             ELSE "Unassigned"
      sp == sentence_skip_left(s32, lpos, "Unassigned", "Sp")
      lp2 == sentence_skip_left(s32, sp.pos, sp.lp, "Close").lp
      rp2 == sentence_scan_right(s32, i, "Unassigned")
      lp3 == sentence_skip_left(s32, lpos, "Unassigned", "Close").lp
  IN
  IF lp0 = "CR" /\ rp = "LF" THEN FALSE                            \* SB3
  ELSE IF ParaSep(lp0) THEN TRUE                                   \* SB4
  ELSE IF IsSBIgnored(rp) THEN FALSE                               \* SB5
  ELSE IF lp = "ATerm" /\ rp = "Numeric" THEN FALSE                \* SB6
  ELSE IF lp1 \in {"Upper", "Lower"} /\ lp = "ATerm" /\ rp = "Upper"
       THEN FALSE                                                  \* SB7
  ELSE IF lp2 = "ATerm" /\ rp2 = "Lower" THEN FALSE                \* SB8
  ELSE IF SATerm(lp2) /\ (rp = "SContinue" \/ SATerm(rp))
       THEN FALSE                                                  \* SB8a
  ELSE IF SATerm(lp3) /\ (rp \in {"Close", "Sp"} \/ ParaSep(rp))
       THEN FALSE                                                  \* SB9
  ELSE IF SATerm(lp2) /\ (rp = "Sp" \/ ParaSep(rp)) THEN FALSE     \* SB10
  ELSE IF SATerm(lp2) THEN TRUE                                    \* SB11
  ELSE FALSE                                                       \* SB998

\* the scalars of the buffer a boundary predicate has read when it has passed
\* its first two rules and fetched the properties on both sides of i (the
\* three predicates begin alike)
boundary_first_reads(l, i) ==
  IF i = 0 THEN {}
  ELSE IF i = l THEN {}
  ELSE {i - 1, i}

(***************************************************************************)
(* The inputs of the normalization calls.                                  *)
(***************************************************************************)
\* L, V, T jamo, TBase itself, TBase + TCount, an LV syllable, a mark
HangulScalars == {4352, 4449, 4520, 4519, 4547, 44032, 776}

\* A, three marks (classes 230, 230, 220), composites of one and two levels,
\* a compatibility ligature, and a canonical composite over a compatibility one
LatinScalars == {65, 770, 776, 803, 196, 7852, 64256, 901}

\* A, and non-starters of classes 220, 230 (one that decomposes), 230 and 202
MarkScalars == {65, 803, 836, 770, 807}

NormInputs ==
  SeqsUpTo(HangulScalars, MaxLen) \cup SeqsUpTo(LatinScalars, MaxLen)
    \cup SeqsUpTo(MarkScalars, MaxLen)

Forms == {"to_nfc", "to_nfd", "to_nfkc", "to_nfkd"}

\* the second call made on a first call's result
SecondForms(first) ==
  CASE first = "to_nfc"  -> {"to_nfc", "to_nfd"}
    [] first = "to_nfd"  -> {"to_nfd"}
    [] first = "to_nfkc" -> {"to_nfkc"}
    [] first = "to_nfkd" -> {"to_nfkd"}

(***************************************************************************)
(* Actions: the calls of the normalization API.                            *)
(***************************************************************************)
Init ==
  /\ pc = "idle"
  /\ call = [op |-> "none"]
  /\ out = <<>>

CallNormalize ==
  /\ pc = "idle"
  /\ \E form \in Forms, s32 \in NormInputs :
       /\ call' = [op |-> form, s32 |-> s32, then |-> "none", first |-> <<>>]
       /\ out' = Normalize(form, s32)
  /\ pc' = "returned"

CallNormalizeAgain ==
  /\ pc = "returned"
  /\ call.op \in Forms
  /\ \E form \in SecondForms(call.op) :
       /\ call' = [call EXCEPT !.then = form, !.first = out]
       /\ out' = Normalize(form, out)
  /\ pc' = "returned2"

CallHangulRoundTrip ==
  /\ pc = "idle"
  /\ \E cp \in SBase..(SBase + SCount - 1) :
       /\ call' = [op |-> "hangul", cp |-> cp,
                   decomposed |-> decompose_code(cp, "NFC")]
       /\ out' = compose(decompose_code(cp, "NFC"))
  /\ pc' = "returned"

(***************************************************************************)
(* The calls of the case engine and of the property queries.               *)
(***************************************************************************)
\* a, I, i, capital sigma, U+02B0 (cased and case-ignorable), full stop,
\* space, combining dot above, sharp s
CaseScalars == {97, 73, 105, 931, 688, 46, 32, 775, 223}

CaseInputs == SeqsUpTo(CaseScalars, MaxCaseLen)

Langs == {NullLang, "tr", "lt"}

\* what may lie in the memory just before the buffer: scalars of class 0,
\* 220 and 230
MemBefore == {32, 803, 775}

CaseOps == {"to_uppercase", "to_lowercase", "to_titlecase"}

CaseMap(op, s32, lang, mem) ==
  CASE op = "to_uppercase" -> to_uppercase(s32, lang, mem)
    [] op = "to_lowercase" -> to_lowercase(s32, lang, mem)
    [] op = "to_titlecase" -> to_titlecase(s32, lang, mem)

CallCaseMapping ==
  /\ pc = "idle"
  /\ \E op \in CaseOps, s32 \in CaseInputs, lang \in Langs, mem \in MemBefore :
       /\ call' = [op |-> op, s32 |-> s32, lang |-> lang, mem |-> mem]
       /\ out' = CaseMap(op, s32, lang, mem)
  /\ pc' = "returned"

FoldScalars == {65, 73, 97, 223, 304, 931, 962, 7838, 64256}

CallSimpleCaseFolding ==
  /\ pc = "idle"
  /\ \E cp \in FoldScalars :
       /\ call' = [op |-> "simple_case_folding", cp |-> cp]
       /\ out' = simple_case_folding(cp)
  /\ pc' = "returned"

Scripts == {"Common", "Inherited", "Latin", "Arabic", "Syriac", "Han"}

ScriptScalars == {65, 1576, 1600, 1611, 12289}

CallIsScript ==
  /\ pc = "idle"
  /\ \E sc \in Scripts, cp \in ScriptScalars :
       /\ call' = [op |-> "is_script", sc |-> sc, cp |-> cp]
       /\ out' = is_script(sc, cp)
  /\ pc' = "returned"

CallIsTitlecase ==
  /\ pc = "idle"
  /\ \E s32 \in CaseInputs :
       /\ call' = [op |-> "is_titlecase", s32 |-> s32]
       /\ out' = is_titlecase(s32)
  /\ pc' = "returned"

\* I, combining dot above (class 230), combining dot below (class 220), a
ContextScalars == {73, 775, 803, 97}

CallIsBeforeDot ==
  /\ pc = "idle"
  /\ \E s32 \in SeqsUpTo(ContextScalars, MaxCaseLen) :
       \E i \in 0..(Len(s32) - 1) :
         /\ call' = [op |-> "is_before_dot", s32 |-> s32, i |-> i,
                     reads |-> is_before_dot_reads(s32, i)]
         /\ out' = is_before_dot(s32, i)
  /\ pc' = "returned"

CallIsMoreAbove ==
  /\ pc = "idle"
  /\ \E s32 \in SeqsUpTo(ContextScalars, MaxCaseLen), mem \in MemBefore :
       \E i \in 0..(Len(s32) - 1) :
         /\ call' = [op |-> "is_more_above", s32 |-> s32, i |-> i, mem |-> mem,
                     reads |-> is_more_above_reads(s32, i, mem)]
         /\ out' = is_more_above(s32, i, mem)
  /\ pc' = "returned"

NextCase ==
  \/ CallCaseMapping
  \/ CallSimpleCaseFolding
  \/ CallIsScript
  \/ CallIsTitlecase
  \/ CallIsBeforeDot
  \/ CallIsMoreAbove

SpecCase == Init /\ [][NextCase]_vars

\* A, A with circumflex, and marks of classes 220, 230 and 202
RunScalars == {65, 194, 803, 770, 807}

\* the composition table of the Unicode data, and a table in which the base
\* composes with the mark of the higher class first: A + circumflex, then
\* A-circumflex + dot below
CompositionTables ==
  { normalization_composition,
    { <<65, 770, 194>>, <<194, 803, 7852>> } }

CallComposeCodes ==
  /\ pc = "idle"
  /\ \E table \in CompositionTables, s32 \in SeqsUpTo(RunScalars, MaxLen) :
       /\ s32 # <<>>
       /\ call' = [op |-> "compose_codes", s32 |-> s32, table |-> table]
       /\ out' = compose_codes(table, s32)
  /\ pc' = "returned"

NextNorm ==
  \/ CallNormalize
  \/ CallNormalizeAgain
  \/ CallHangulRoundTrip
  \/ CallComposeCodes

SpecNorm == Init /\ [][NextNorm]_vars

(***************************************************************************)
(* The calls of the segmentation engines and of the combining character    *)
(* sequences.                                                              *)
(***************************************************************************)
\* e, combining acute, ZWJ, an Extended_Pictographic scalar, CR, LF
GraphemeScalars == {101, 769, 8205, 128105, 13, 10}

\* a Regional_Indicator, e, combining acute
RIScalars == {127462, 101, 769}

\* two Extended_Pictographic scalars, ZWJ, combining acute
EmojiScalars == {128105, 128187, 8205, 769}

\* CR, LF, soft hyphen (Control), combining acute (Extend), ZWJ,
\* DEVANAGARI SIGN VISARGA (SpacingMark), ARABIC NUMBER SIGN (Prepend)
ControlScalars == {13, 10, 173, 769, 8205, 2307, 1536}

GraphemeInputs ==
  SeqsUpTo(GraphemeScalars, MaxSegLen) \cup SeqsUpTo(RIScalars, MaxRunLen)
    \cup SeqsUpTo(EmojiScalars, MaxSegLen + 1)
    \cup SeqsUpTo(ControlScalars, MaxSegLen - 1)

\* A, full stop, combining dot above, a Regional_Indicator, CR
WordScalars == {65, 46, 775, 127462, 13}

\* A, space (WSegSpace), soft hyphen (Format), ZWJ, NEL (Newline), LF
IgnoredScalars == {65, 32, 173, 8205, 133, 10}

\* a Regional_Indicator, combining dot above (Extend), A
FlagScalars == {127462, 775, 65}

\* A, a, full stop, space, combining acute, right parenthesis
SentenceScalars == {65, 97, 46, 32, 769, 41}

\* L, V and T jamo, combining acute, ZWJ, A, NUL (a control)
CombiningScalars == {4352, 4449, 4520, 769, 8205, 65, 0}

\* what the memory holds behind the buffer: the terminator, or a T jamo and
\* then the terminator
AfterBuffer == {<<0>>, <<4520, 0>>}

CallIsGraphemeBoundary ==
  /\ pc = "idle"
  /\ \E s32 \in GraphemeInputs :
       \E i \in 0..Len(s32) :
         /\ call' = [op |-> "is_grapheme_boundary", s32 |-> s32, i |-> i,
                     reads |-> boundary_first_reads(Len(s32), i)]
         /\ out' = is_grapheme_boundary(s32, i)
  /\ pc' = "returned"

CallIsWordBoundary ==
  /\ pc = "idle"
  /\ \E s32 \in SeqsUpTo(WordScalars, MaxSegLen)
                   \cup SeqsUpTo(IgnoredScalars, MaxSegLen - 1)
                   \cup SeqsUpTo(FlagScalars, MaxRunLen) :
       \E i \in 0..Len(s32) :
         /\ call' = [op |-> "is_word_boundary", s32 |-> s32, i |-> i,
                     reads |-> boundary_first_reads(Len(s32), i)]
         /\ out' = is_word_boundary(s32, i)
  /\ pc' = "returned"

CallIsSentenceBoundary ==
  /\ pc = "idle"
  \* the second family: CR, LF, NEL (Sep), full stop, A
  /\ \E s32 \in SeqsUpTo(SentenceScalars, MaxSegLen)
                   \cup SeqsUpTo({13, 10, 133, 46, 65}, MaxSegLen - 1) :
       \E i \in 0..Len(s32) :
         /\ call' = [op |-> "is_sentence_boundary", s32 |-> s32, i |-> i,
                     reads |-> boundary_first_reads(Len(s32), i)]
         /\ out' = is_sentence_boundary(s32, i)
  /\ pc' = "returned"

CallGraphemeLength ==
  /\ pc = "idle"
  /\ \E s32 \in GraphemeInputs :
       /\ call' = [op |-> "grapheme_length", s32 |-> s32]
       /\ out' = grapheme_length(s32)
  /\ pc' = "returned"

CallGraphemeCount ==
  /\ pc = "idle"
  /\ \E s32 \in GraphemeInputs :
       /\ call' = [op |-> "grapheme_count", s32 |-> s32]
       /\ out' = grapheme_count(s32)
  /\ pc' = "returned"

CallExtendedCombiningLength ==
  /\ pc = "idle"
  /\ \E s32 \in SeqsUpTo(CombiningScalars, MaxSegLen), after \in AfterBuffer :
       /\ call' = [op |-> "extended_combining_character_sequence_length",
                   s32 |-> s32, after |-> after]
       /\ out' = extended_combining_character_sequence_length(s32, after)
  /\ pc' = "returned"

CallCombiningLength ==
  /\ pc = "idle"
  /\ \E s32 \in SeqsUpTo(CombiningScalars, MaxSegLen) :
       /\ call' = [op |-> "combining_character_sequence_length", s32 |-> s32]
       /\ out' = combining_character_sequence_length(s32)
  /\ pc' = "returned"

CallCombiningCount ==
  /\ pc = "idle"
  /\ \E s32 \in SeqsUpTo(CombiningScalars, MaxSegLen) :
       /\ call' = [op |-> "combining_character_sequence_count", s32 |-> s32]
       /\ out' = combining_character_sequence_count(s32)
  /\ pc' = "returned"

CallExtendedCombiningCount ==
  /\ pc = "idle"
  /\ \E s32 \in SeqsUpTo(CombiningScalars, MaxSegLen), after \in AfterBuffer :
       /\ call' = [op |-> "extended_combining_character_sequence_count",
                   s32 |-> s32, after |-> after]
       /\ out' = extended_combining_character_sequence_count(s32, after)
  /\ pc' = "returned"

NextSeg ==
  \/ CallIsGraphemeBoundary
  \/ CallIsWordBoundary
  \/ CallIsSentenceBoundary
  \/ CallGraphemeLength
  \/ CallGraphemeCount
  \/ CallExtendedCombiningLength
  \/ CallCombiningLength
  \/ CallCombiningCount
  \/ CallExtendedCombiningCount

SpecSeg == Init /\ [][NextSeg]_vars

(***************************************************************************)
(* Claims about normalization, checked under SpecNorm.                     *)
(***************************************************************************)
FormOf(op) ==
  CASE op = "to_nfc"  -> "NFC"
    [] op = "to_nfd"  -> "NFD"
    [] op = "to_nfkc" -> "NFKC"
    [] op = "to_nfkd" -> "NFKD"

IsCall(op) == pc = "returned" /\ call.op = op

IsSecondCall(op, then) == pc = "returned2" /\ call.op = op /\ call.then = then

\* C1: for every scalar sequence X, to_nfd(to_nfc(X)) = to_nfd(X): composing
\* never changes the canonical decomposition of the text.
C1_NfdOfNfcIsNfd ==
  IsSecondCall("to_nfc", "to_nfd") => out = to_nfd(call.s32)

\* C2: to_nfc and to_nfkc are idempotent: normalizing the result of to_nfc
\* (to_nfkc) with the same form again returns that result unchanged.
C2_ComposeIdempotent ==
  \A f \in {"to_nfc", "to_nfkc"} : IsSecondCall(f, f) => out = call.first

C2_Witness ==
  /\ IsSecondCall("to_nfc", "to_nfc")
  /\ call.s32 = <<65, 803, 770>>
  /\ call.first = <<7852>>
  /\ out = <<7852>>

HasApplicableDecomposition(cp, norm) ==
  LET prop == normalization_properties(cp)
  IN  prop.codes # <<>> /\ (~prop.compat_format \/ IsCompatForm(norm))

\* C3: decomposition is idempotent (to_nfd(to_nfd(X)) = to_nfd(X), the same
\* for to_nfkd), and no scalar of its output is a precomposed Hangul syllable
\* or still has a decomposition applicable in the requested form.
C3_DecomposeIdempotent ==
  \A f \in {"to_nfd", "to_nfkd"} :
    /\ IsCall(f) =>
         \A k \in 1..Len(out) :
           /\ ~is_precomposed_syllable(out[k])
           /\ ~HasApplicableDecomposition(out[k], FormOf(f))
    /\ IsSecondCall(f, f) => out = call.first

C3_Witness ==
  /\ IsSecondCall("to_nfkd", "to_nfkd")
  /\ call.s32 = <<7852, 64256, 901>>
  /\ call.first = <<65, 803, 770, 102, 102, 32, 776, 769>>
  /\ out = call.first

ClassSubsequence(s, k) ==
  LET HasClass(cp) == combining_class(cp) = k IN SelectSeq(s, HasClass)

\* C4: canonical ordering.  In the output Y of to_nfd / to_nfkd every
\* non-starter follows a starter or a non-starter of a class not above its own;
\* against the expanded, not yet reordered sequence the starters keep their
\* positions and the non-starters of each class keep their relative order.
C4_CanonicalOrdering ==
  \A f \in {"to_nfd", "to_nfkd"} :
    IsCall(f) =>
      LET Y == out
          E == decompose_expand(call.s32, 0, FormOf(f))
      IN  /\ \A i \in 2..Len(Y) :
                combining_class(Y[i]) > 0 =>
                  \/ combining_class(Y[i - 1]) = 0
                  \/ combining_class(Y[i - 1]) <= combining_class(Y[i])
          /\ Len(Y) = Len(E)
          /\ \A i \in 1..Len(E) :
                (combining_class(E[i]) = 0 \/ combining_class(Y[i]) = 0)
                  => Y[i] = E[i]
          /\ \A k \in {202, 220, 230} :
                ClassSubsequence(Y, k) = ClassSubsequence(E, k)

C4_Witness ==
  /\ IsCall("to_nfd")
  /\ call.s32 = <<65, 776, 770, 803>>
  /\ out = <<65, 803, 776, 770>>

\* C5: Hangul round trip.  A precomposed syllable c decomposes into exactly
\* (L, V) when (c - SBase) mod TCount = 0 and exactly (L, V, T) otherwise, and
\* composing that decomposition yields exactly <<c>>.
C5_HangulRoundTrip ==
  IsCall("hangul") =>
    LET c == call.cp
        d == call.decomposed
    IN  /\ Len(d) = IF (c - SBase) % TCount = 0 THEN 2 ELSE 3
        /\ LBase <= d[1] /\ d[1] < LBase + LCount
        /\ VBase <= d[2] /\ d[2] < VBase + VCount
        /\ Len(d) = 3 => TBase < d[3] /\ d[3] < TBase + TCount
        /\ out = <<c>>

C5_Witness ==
  /\ IsCall("hangul")
  /\ call.cp = 55203
  /\ call.decomposed = <<4370, 4469, 4546>>
  /\ out = <<55203>>

\* C17: canonical equivalence under reordering.  If Y is X with two adjacent
\* non-starters of different canonical combining classes (both > 0) swapped,
\* then to_nfd(X) = to_nfd(Y).
C17_ReorderingEquivalence ==
  IsCall("to_nfd") =>
    \A p \in 0..(Len(call.s32) - 2) :
      LET c1 == combining_class(At(call.s32, p))
          c2 == combining_class(At(call.s32, p + 1))
      IN  (c1 > 0 /\ c2 > 0 /\ c1 # c2)
            => to_nfd(Swap(call.s32, p, p + 1)) = out

C17_Witness ==
  /\ IsCall("to_nfd")
  /\ call.s32 = <<65, 836, 803, 807>>
  /\ out = <<65, 807, 803, 776, 769>>
  /\ to_nfd(<<65, 803, 836, 807>>) = out

\* the expansion of a scalar as the claim describes it: with compat = FALSE a
\* scalar whose mapping is tagged is left as it is, at any depth; with
\* compat = TRUE every mapping is expanded, recursively
RECURSIVE ExpandScalar(_, _)
ExpandScalar(cp, compat) ==
  LET prop == normalization_properties(cp)
      E(k) == ExpandScalar(prop.codes[k], compat)
  IN  IF prop.codes = <<>> \/ (prop.compat_format /\ ~compat)
      THEN <<cp>>
      ELSE IF Len(prop.codes) = 1 THEN E(1) ELSE E(1) \o E(2)

RECURSIVE ExpandAll(_, _)
ExpandAll(X, compat) ==
  IF X = <<>> THEN <<>>
  ELSE ExpandScalar(Head(X), compat) \o ExpandAll(Tail(X), compat)

\* C18: a scalar whose decomposition carries a compatibility tag is emitted
\* unchanged by to_nfd and by the decomposition step of to_nfc, also inside
\* another scalar's canonical decomposition, while to_nfkd and to_nfkc replace
\* it by the full recursive expansion of its mapping; to_nfkd([U+FB00]) =
\* [U+0066, U+0066] and to_nfd([U+FB00]) = [U+FB00].
C18_CompatibilityTag ==
  \A f \in Forms :
    (IsCall(f) /\ \A k \in 1..Len(call.s32) : ~is_precomposed_syllable(call.s32[k]))
      => LET compat == f \in {"to_nfkd", "to_nfkc"}
             D == canonical_ordering(ExpandAll(call.s32, compat), 0)
         IN  /\ f \in {"to_nfd", "to_nfkd"} => out = D
             /\ f \in {"to_nfc", "to_nfkc"} => out = compose(D)
             /\ (f = "to_nfkd" /\ call.s32 = <<64256>>) => out = <<102, 102>>
             /\ (f = "to_nfd" /\ call.s32 = <<64256>>) => out = <<64256>>

C18_Witness ==
  /\ IsCall("to_nfd")
  /\ call.s32 = <<901, 64256>>
  /\ out = <<168, 769, 64256>>
  /\ to_nfkd(call.s32) = <<32, 776, 769, 102, 102>>

\* C21: during composition a scalar that follows an L,V pair or an LV
\* syllable is folded into the syllable as a trailing consonant only if it lies
\* strictly between TBase and TBase + TCount, adding (scalar - TBase); TBase
\* and TBase + TCount themselves are never consumed and appear unchanged in
\* the output of to_nfc.
C21_TrailingConsonantRange ==
  IsCall("to_nfc") =>
    \A x \in HangulScalars :
      (call.s32 = <<4352, 4449, x>> \/ call.s32 = <<44032, x>>)
        => out = IF TBase < x /\ x < TBase + TCount
                 THEN <<44032 + (x - TBase)>>
                 ELSE <<44032, x>>

\* the single left-to-right pass over the run s, from candidate k on: S is the
\* current starter, maxc the highest class of the non-starters passed and not
\* consumed, rest those non-starters; returns the output and the number of
\* scalars of the run
RECURSIVE SinglePass(_, _, _, _, _, _)
SinglePass(table, s, k, S, maxc, rest) ==
  IF k > Len(s) THEN [out |-> <<S>> \o rest, n |-> Len(s)]
  ELSE LET c == s[k]
           kc == combining_class(c)
           pair == {t \in table : t[1] = S /\ t[2] = c}
       IN  IF kc > maxc /\ pair # {}
           THEN SinglePass(table, s, k + 1, (CHOOSE t \in pair : TRUE)[3], maxc, rest)
           ELSE IF kc = 0
                THEN [out |-> <<S>> \o rest, n |-> k - 1]
                ELSE SinglePass(table, s, k + 1, S, Max(maxc, kc), rest \o <<c>>)

Range(s) == {s[k] : k \in 1..Len(s)}

MinOf(S) == CHOOSE x \in S : \A y \in S : x <= y

MaxOf(S) == CHOOSE x \in S : \A y \in S : y <= x

RECURSIVE ConcatOver(_, _, _)
\* Map(1) \o ... \o Map(n), the 0-based positions k .. n-1 of a text of length n
ConcatOver(Map(_), k, n) ==
  IF k < n THEN Map(k) \o ConcatOver(Map, k + 1, n) ELSE <<>>

\* A special-casing entry applies iff its language tag is absent or equals L
\* and its context predicate holds, an entry without a context counting as
\* holding; the first applying entry supplies the mapping.
EntryApplies(e, s32, i, lang, mem) ==
  /\ e.language = NullLang \/ e.language = lang
  /\ e.context = "Unassigned" \/ context_handle(e.context, s32, i, mem)

FirstApplyingMapping(s32, i, lang, type, mem) ==
  LET cp == At(s32, i)
      r == special_case_mappings(cp)
      applying == {k \in 1..Len(r) : EntryApplies(r[k], s32, i, lang, mem)}
      it == special_case_mappings_default(cp)
  IN  IF applying # {} THEN r[MinOf(applying)][type]
      ELSE IF it.found THEN it.sc[type]
      ELSE <<simple_case_mapping(cp, type)>>

\* C6: in full case mapping at position i with language L the first entry, in
\* declaration order, whose language tag is absent or equals L and whose
\* context holds (no context counts as holding) supplies the mapping; so
\* to_uppercase([U+0069], "tr") = [U+0130] and to_uppercase([U+0069], null) =
\* [U+0049].
C6_FirstApplyingEntry ==
  /\ IsCall("to_uppercase") =>
       LET M(k) == FirstApplyingMapping(call.s32, k, call.lang, "Upper", call.mem)
       IN  out = ConcatOver(M, 0, Len(call.s32))
  /\ IsCall("to_lowercase") =>
       LET M(k) == FirstApplyingMapping(call.s32, k, call.lang, "Lower", call.mem)
       IN  out = ConcatOver(M, 0, Len(call.s32))
  /\ (IsCall("to_uppercase") /\ call.s32 = <<105>> /\ call.lang = "tr")
       => out = <<304>>
  /\ (IsCall("to_uppercase") /\ call.s32 = <<105>> /\ call.lang = NullLang)
       => out = <<73>>

\* Final_Sigma as the claim defines it, on 1-based positions
FinalSigma(X, i) ==
  /\ \E j \in 1..(i - 1) :
       is_cased(X[j]) /\ \A m \in (j + 1)..(i - 1) : is_case_ignorable(X[m])
  /\ ~\E k \in (i + 1)..Len(X) :
       is_cased(X[k]) /\ \A m \in (i + 1)..(k - 1) : is_case_ignorable(X[m])

\* scalars whose lower mapping is one scalar in every language and context
OneToOneLower == {931, 97, 688, 46, 32}

\* C7: Final_Sigma holds at i iff some cased scalar precedes i with only
\* case-ignorable scalars in between and no cased scalar follows i with only
\* case-ignorable scalars in between, also for scalars that are both cased and
\* case-ignorable; to_lowercase maps U+03A3 to U+03C2 exactly where it holds
\* and to U+03C3 elsewhere.
C7_FinalSigma ==
  (IsCall("to_lowercase") /\ Range(call.s32) \subseteq OneToOneLower) =>
    /\ Len(out) = Len(call.s32)
    /\ \A i \in 1..Len(call.s32) :
         call.s32[i] = 931 =>
           out[i] = IF FinalSigma(call.s32, i) THEN 962 ELSE 963

\* C8: simple_case_folding(c) is the S mapping if c has one, else the C mapping
\* if c has one, else c itself.
C8_SimpleCaseFolding ==
  IsCall("simple_case_folding") =>
    LET it == case_foldings(call.cp)
    IN  out = IF it.found /\ it.S # 0 THEN it.S
              ELSE IF it.found /\ it.C # 0 THEN it.C
              ELSE call.cp

\* C9: is_script(S, c) is true iff S = script(c), or script(c) is Common or
\* Inherited and S is in the Script_Extensions set of c; so is_script(script(c), c)
\* is true for every c.
C9_IsScript ==
  IsCall("is_script") =>
    /\ out = ( \/ call.sc = script(call.cp)
               \/ /\ script(call.cp) \in {"Common", "Inherited"}
                  /\ call.sc \in script_extension_properties(call.cp) )
    /\ call.sc = script(call.cp) => out = TRUE

\* what position p (0-based) of X contributes to the title-cased text: with b1
\* the last word boundary at or before p, X[p] itself while no cased scalar
\* lies in [b1, p], the title mapping when p is the first cased scalar from b1
\* on, the lower mapping after that
TitleContribution(X, p, lang, mem) ==
  LET b1 == MaxOf({b \in 0..p : is_word_boundary(X, b)})
      cased == {j \in b1..p : is_cased(At(X, j))}
  IN  IF cased = {} THEN <<At(X, p)>>
      ELSE IF MinOf(cased) = p THEN full_case_mapping(X, p, lang, "Title", mem)
      ELSE full_case_mapping(X, p, lang, "Lower", mem)

\* C10: to_titlecase treats every word segment [b1, b2) between consecutive
\* word boundaries alike: the scalars before its first cased scalar are copied,
\* that scalar gets its full title mapping, every later scalar of the segment
\* its full lower mapping; every position contributes once, in order.
C10_TitlecaseBySegment ==
  IsCall("to_titlecase") =>
    LET M(p) == TitleContribution(call.s32, p, call.lang, call.mem)
    IN  out = ConcatOver(M, 0, Len(call.s32))

C10_Witness ==
  /\ IsCall("to_titlecase")
  /\ call.s32 = <<32, 223, 73>>
  /\ call.lang = NullLang
  /\ out = <<32, 83, 115, 105>>

\* C11: is_titlecase(X) is true iff to_titlecase(X, no language) = X, for
\* every X (the tables flagging Changes_When_Titlecased / Changes_When_Lowercased
\* exactly for the scalars whose title / lower mapping differs from them).
C11_IsTitlecase ==
  IsCall("is_titlecase") =>
    \A mem \in MemBefore :
      out = (to_titlecase(call.s32, NullLang, mem) = call.s32)

C11_Witness ==
  /\ IsCall("is_titlecase")
  /\ call.s32 = <<73, 32, 73>>
  /\ out = TRUE

\* some j with i < j < l such that every scalar strictly between i and j has
\* a class outside {0, 230} and X[j] is in Target (0-based positions)
FollowedBy(X, i, Target) ==
  \E j \in (i + 1)..(Len(X) - 1) :
    /\ \A m \in (i + 1)..(j - 1) : combining_class(At(X, m)) \notin {0, 230}
    /\ At(X, j) \in Target

\* C19: Before_Dot holds at position i of X iff there is an index j, i < j < l,
\* such that every scalar strictly between i and j has ccc not in {0, 230} and
\* X[j] = U+0307; it is false when i is the last position or when only scalars
\* with ccc not in {0, 230} follow i.
C19_BeforeDot ==
  IsCall("is_before_dot") => out = FollowedBy(call.s32, call.i, {775})

\* C20: More_Above holds at position i of X iff there is an index j, i < j < l,
\* such that every scalar strictly between i and j has ccc not in {0, 230} and
\* ccc(X[j]) = 230; the result depends only on the scalars after i and is
\* false when nothing follows i.
C20_MoreAbove ==
  IsCall("is_more_above") =>
    out = FollowedBy(call.s32, call.i,
                     {cp \in ContextScalars : combining_class(cp) = 230})

\* C28: a case-context predicate called with i < l reads s32 only at
\* positions 0 .. l-1.
C28_ReadsInBounds ==
  (IsCall("is_more_above") \/ IsCall("is_before_dot")) =>
    call.reads \subseteq 0..(Len(call.s32) - 1)

(***************************************************************************)
(* Claims about segmentation and combining character sequences, checked    *)
(* under SpecSeg.                                                          *)
(***************************************************************************)
BoundaryOps == {"is_grapheme_boundary", "is_word_boundary", "is_sentence_boundary"}

RECURSIVE SegmentLengths(_, _, _)
SegmentLengths(s, i, fuel) ==
  IF i < Len(s) /\ fuel > 0
  THEN LET n == grapheme_length(Suffix(s, i))
       IN  <<n>> \o SegmentLengths(s, i + Max(n, 1), fuel - 1)
  ELSE <<>>

RECURSIVE SumSeq(_)
SumSeq(q) == IF q = <<>> THEN 0 ELSE Head(q) + SumSeq(Tail(q))

\* C13: grapheme segmentation covers the input.  For every sequence of length
\* len >= 1 the successive values of grapheme_length on the remaining suffix
\* are each at least 1 and at most the remaining length, they sum to len, and
\* grapheme_count is their number.
C13_SegmentationCovers ==
  (IsCall("grapheme_count") /\ Len(call.s32) >= 1) =>
    LET lens == SegmentLengths(call.s32, 0, Len(call.s32) + 1)
    IN  /\ \A k \in 1..Len(lens) :
             /\ lens[k] >= 1
             /\ lens[k] <= Len(call.s32) - SumSeq(SubSeq(lens, 1, k - 1))
        /\ SumSeq(lens) = Len(call.s32)
        /\ out = Len(lens)

C13_Witness ==
  /\ IsCall("grapheme_count")
  /\ call.s32 = <<101, 769, 101>>
  /\ SegmentLengths(call.s32, 0, 4) = <<2, 1>>
  /\ out = 2

IsRI(cp) == grapheme_break_properties(cp) = "Regional_Indicator"

\* the number of consecutive Regional_Indicator scalars that end at the
\* 1-based position j of s
RECURSIVE RIRunEndingAt(_, _)
RIRunEndingAt(s, j) ==
  IF j >= 1 /\ IsRI(s[j]) THEN 1 + RIRunEndingAt(s, j - 1) ELSE 0

\* C14: in a maximal run of Regional_Indicator scalars that starts at the start
\* of the text or after a scalar that is not one, is_grapheme_boundary between
\* the k-th and the (k+1)-th scalar of the run is true iff k is even; [RI, RI]
\* is one grapheme cluster and [RI, RI, RI, RI] two clusters of length 2.
C14_RegionalIndicatorPairs ==
  /\ ( /\ IsCall("is_grapheme_boundary")
       /\ 0 < call.i /\ call.i < Len(call.s32)
       /\ IsRI(At(call.s32, call.i - 1)) /\ IsRI(At(call.s32, call.i)) )
       => out = (RIRunEndingAt(call.s32, call.i) % 2 = 0)
  /\ (IsCall("grapheme_length") /\ call.s32 = <<127462, 127462>>) => out = 2
  /\ (IsCall("grapheme_count") /\ call.s32 = <<127462, 127462>>) => out = 1
  /\ (IsCall("grapheme_count") /\ call.s32 = <<127462, 127462, 127462, 127462>>)
       => (out = 2 /\ SegmentLengths(call.s32, 0, 4) = <<2, 2>>)

C14_Witness ==
  /\ IsCall("is_grapheme_boundary")
  /\ call.s32 = <<101, 127462, 127462, 127462, 127462>>
  /\ call.i = 3
  /\ out = TRUE

IsExtendedPictographic(cp) == emoji_properties(cp) = "Extended_Pictographic"

\* C15: GB11.  When s[i-1] is ZWJ and s[i] is Extended_Pictographic,
\* is_grapheme_boundary is false iff, going left from i-2 over zero or more
\* Grapheme_Break=Extend scalars, the next scalar exists and is
\* Extended_Pictographic; so [U+1F469, U+200D, U+1F4BB] is one cluster of
\* length 3.
C15_EmojiZwjSequence ==
  /\ ( /\ IsCall("is_grapheme_boundary")
       /\ 0 < call.i /\ call.i < Len(call.s32)
       /\ At(call.s32, call.i - 1) = ZERO_WIDTH_JOINER
       /\ IsExtendedPictographic(At(call.s32, call.i)) )
       => out = ~(\E j \in 0..(call.i - 2) :
                    /\ IsExtendedPictographic(At(call.s32, j))
                    /\ \A m \in (j + 1)..(call.i - 2) :
                         grapheme_break_properties(At(call.s32, m)) = "Extend")
  /\ (IsCall("grapheme_length") /\ call.s32 = <<128105, 8205, 128187>>)
       => out = 3
  /\ (IsCall("grapheme_count") /\ call.s32 = <<128105, 8205, 128187>>)
       => out = 1

C15_Witness ==
  /\ IsCall("is_grapheme_boundary")
  /\ call.s32 = <<128105, 769, 769, 8205, 128187>>
  /\ call.i = 4
  /\ out = FALSE

\* the length of the run of scalars of the set S that starts at the 0-based
\* position i of s
RECURSIVE RunFrom(_, _, _)
RunFrom(s, i, S) ==
  IF i < Len(s) /\ At(s, i) \in S THEN 1 + RunFrom(s, i + 1, S) ELSE 0

JamoOf(p) == {cp \in CombiningScalars : grapheme_break_properties(cp) = p}

MarksAndJoiners ==
  {cp \in CombiningScalars :
     is_mark(cp) \/ cp = ZERO_WIDTH_JOINER \/ cp = ZERO_WIDTH_NON_JOINER}

\* C16: on an input that begins with a >= 1 L jamo, then b >= 1 V jamo, then
\* t >= 0 T jamo, then m >= 0 marks / ZWJ / ZWNJ, followed by the end of the
\* input or by a scalar that is none of these,
\* extended_combining_character_sequence_length returns exactly a + b + t + m.
C16_KoreanSyllableBlock ==
  IsCall("extended_combining_character_sequence_length") =>
    LET X == call.s32
        a == RunFrom(X, 0, JamoOf("L"))
        b == RunFrom(X, a, JamoOf("V"))
        t == RunFrom(X, a + b, JamoOf("T"))
        m == RunFrom(X, a + b + t, MarksAndJoiners)
    IN  (a >= 1 /\ b >= 1) => out = a + b + t + m


\* C23: at an interior position GB3 to GB5 are decided before every later
\* rule: CR before LF is no boundary; otherwise a Control, CR or LF on either
\* side is a boundary, also before Extend, ZWJ or SpacingMark and after
\* Prepend.
C23_ControlPrecedence ==
  (IsCall("is_grapheme_boundary") /\ call.i > 0 /\ call.i < Len(call.s32)) =>
    LET lp == grapheme_break_properties(At(call.s32, call.i - 1))
        rp == grapheme_break_properties(At(call.s32, call.i))
    IN /\ (lp = "CR" /\ rp = "LF") => out = FALSE
       /\ (~(lp = "CR" /\ rp = "LF")
             /\ (lp \in {"Control", "CR", "LF"}
                   \/ rp \in {"Control", "CR", "LF"})) => out = TRUE

C23_Witness ==
  /\ IsCall("is_grapheme_boundary")
  /\ call.s32 \in {<<173, 769>>, <<13, 8205>>, <<10, 2307>>, <<1536, 13>>}
  /\ call.i = 1
  /\ out = TRUE


WBNewline == {"Newline", "CR", "LF"}

\* the scalars of s32 that WB4 does not ignore
WBKept(s32) ==
  SelectSeq(s32, LAMBDA cp : ~IsWBIgnored(word_break_properties(cp)))

\* C24: at an interior position before Extend, Format or ZWJ there is a
\* boundary exactly when s[i-1] is Newline, CR or LF; before any other scalar,
\* when no rule up to WB3d decides, the result is the one for the text whose
\* ignored scalars to the left of i are removed (WB3d itself looks only at the
\* adjacent pair, so two spaces separated by ignored scalars are a boundary).
C24_IgnoreExtendFormat ==
  (IsCall("is_word_boundary") /\ call.i > 0 /\ call.i < Len(call.s32)) =>
    LET s == call.s32
        i == call.i
        lp0 == word_break_properties(At(s, i - 1))
        rp == word_break_properties(At(s, i))
        kept == WBKept(SubSeq(s, 1, i))
        lp == IF kept = <<>> THEN "Unassigned"
              ELSE word_break_properties(kept[Len(kept)])
    IN /\ IsWBIgnored(rp) => out = (lp0 \in WBNewline)
       /\ (/\ ~IsWBIgnored(rp)
           /\ IsWBIgnored(lp0)
           /\ rp \notin WBNewline
           /\ emoji_properties(At(s, i)) # "Extended_Pictographic")
          => out = IF lp = "WSegSpace" /\ rp = "WSegSpace" THEN TRUE
                   ELSE is_word_boundary(kept \o SubSeq(s, i + 1, Len(s)),
                                         Len(kept))

C24_Witness ==
  /\ IsCall("is_word_boundary")
  /\ \/ call.s32 = <<65, 46, 775, 65>> /\ call.i = 3 /\ out = FALSE
     \/ call.s32 = <<10, 173>> /\ call.i = 1 /\ out = TRUE
     \/ call.s32 = <<65, 173, 65>> /\ call.i \in {1, 2} /\ out = FALSE


\* the number of Regional_Indicator scalars met going left from position j,
\* Extend, Format and ZWJ skipped, up to the first other scalar
RECURSIVE WordRICount(_, _)
WordRICount(s, j) ==
  IF j < 0 THEN 0
  ELSE LET p == word_break_properties(At(s, j))
       IN IF IsWBIgnored(p) THEN WordRICount(s, j - 1)
          ELSE IF p = "Regional_Indicator" THEN 1 + WordRICount(s, j - 1)
          ELSE 0

\* C25: before the (k+1)-th Regional_Indicator of a run, Extend, Format and
\* ZWJ between the indicators skipped, there is a word boundary iff k is even.
C25_WordRegionalIndicatorPairs ==
  (IsCall("is_word_boundary") /\ call.i > 0 /\ call.i < Len(call.s32)) =>
    LET k == WordRICount(call.s32, call.i - 1)
    IN (word_break_properties(At(call.s32, call.i)) = "Regional_Indicator"
          /\ k >= 1)
         => out = (k % 2 = 0)

C25_Witness ==
  /\ IsCall("is_word_boundary")
  /\ call.s32 = <<127462, 775, 127462, 127462, 775, 127462>>
  /\ call.i = 5
  /\ out = FALSE


\* s without the scalars at its end whose Sentence_Break property is p
RECURSIVE DropTrailing(_, _)
DropTrailing(s, p) ==
  IF s # <<>> /\ sentence_break_properties(s[Len(s)]) = p
  THEN DropTrailing(SubSeq(s, 1, Len(s) - 1), p)
  ELSE s

\* s, Extend and Format left out, ends with SATerm Close* Sp*
EndsWithSATermCloseSp(s) ==
  LET kept == SelectSeq(s, LAMBDA cp :
                             ~IsSBIgnored(sentence_break_properties(cp)))
      t == DropTrailing(DropTrailing(kept, "Sp"), "Close")
  IN t # <<>> /\ SATerm(sentence_break_properties(t[Len(t)]))

\* C26: at an interior position is_sentence_boundary is true only after a
\* Sep, CR or LF (CR before LF excepted) or when the scalars before i, Extend
\* and Format left out, end with SATerm Close* Sp*.
C26_SentenceBreakOnlyAfterTerminator ==
  (/\ IsCall("is_sentence_boundary")
   /\ call.i > 0 /\ call.i < Len(call.s32)
   /\ out = TRUE) =>
    LET lp0 == sentence_break_properties(At(call.s32, call.i - 1))
        rp == sentence_break_properties(At(call.s32, call.i))
    IN \/ ParaSep(lp0) /\ ~(lp0 = "CR" /\ rp = "LF")
       \/ EndsWithSATermCloseSp(SubSeq(call.s32, 1, call.i))

C26_Witness ==
  /\ IsCall("is_sentence_boundary")
  /\ call.s32 = <<46, 769, 32, 65>>
  /\ call.i = 3
  /\ out = TRUE


\* C27: the two sequence-length functions return at least 1 on every
\* non-empty input, whatever its first scalar, and the two counting functions
\* return on every input.
C27_CountTerminates ==
  /\ (/\ \/ IsCall("combining_character_sequence_length")
         \/ IsCall("extended_combining_character_sequence_length")
      /\ call.s32 # <<>>) => out >= 1
  /\ (\/ IsCall("combining_character_sequence_count")
      \/ IsCall("extended_combining_character_sequence_count")) => out.returns


\* C29: grapheme_length never returns more than the length of its input, the
\* empty input included.
C29_GraphemeLengthWithinInput ==
  IsCall("grapheme_length") => out <= Len(call.s32)

\* the positions at which the segments of SegmentLengths start
SegmentStarts(s) ==
  LET lens == SegmentLengths(s, 0, Len(s) + 1)
  IN  {SumSeq(SubSeq(lens, 1, k - 1)) : k \in 1..Len(lens)}

\* the positions of [0, l) at which the predicate on the whole text is true
WholeTextBoundaries(s) ==
  {i \in 0..(Len(s) - 1) : is_grapheme_boundary(s, i)}

\* C30: the segments found by taking grapheme_length of successive suffixes
\* start exactly at the positions of [0, l) where is_grapheme_boundary on the
\* whole text is true, and grapheme_count is the number of these positions.
C30_SuffixSegmentationAgrees ==
  IsCall("grapheme_count") =>
    /\ SegmentStarts(call.s32) = WholeTextBoundaries(call.s32)
    /\ out = Cardinality(WholeTextBoundaries(call.s32))

C30_Witness ==
  /\ IsCall("grapheme_count")
  /\ call.s32 = <<128105, 769, 8205, 128187, 128105>>
  /\ WholeTextBoundaries(call.s32) = {0, 4}
  /\ out = 2

=============================================================================
